---- MODULE Spec2Model ----
(***************************************************************************)
(* Model of beartype's type-check code generation:                         *)
(*   - the code snippets of beartype/_decor/_code/_pep/_pepsnip.py, as the *)
(*     Python expressions they spell, and the Python evaluation of these;  *)
(*   - the memoized factory make_func_wrapper_code of                      *)
(*     beartype/_decor/_wrapper/_wrappercode.py.                           *)
(* Generated code is kept as an expression tree, one node per Python       *)
(* operator of a snippet, instead of text.                                 *)
(***************************************************************************)
EXTENDS Integers, Sequences, FiniteSets, TLC

VARIABLES
    \* ---- memoized factory (one process-wide cache, several threads)
    cache,       \* key -> stored return value of the factory, or NoEntry
    excs,        \* key -> memoized exception kind, or NoExc
    pc,          \* thread -> "idle" | "lookup" | "body" | "store"
    args,        \* thread -> <<hint, conf>> of the call in progress
    local,       \* thread -> value computed by the body, not yet stored
    ret,         \* thread -> what the last finished call returned or raised
    compiles,    \* <<hint, conf>> -> number of make_check_expr invocations
    returned,    \* <<hint, conf>> -> set of everything calls have returned
    ncalls,      \* number of calls issued so far
    \* ---- one decorated parameter and the calls checking it
    hint,        \* hint of the decorated parameter, or NoHint
    conf,        \* configuration of the decoration
    wrapper,     \* return value of make_func_wrapper_code(hint, conf)
    pith,        \* root value of the last check invocation
    random_int,  \* random integer of the last check invocation
    outcome,     \* result of the last check invocation
    \* ---- one decorated callable and the calls of its wrapper
    decorated,   \* the checked parameter, the hints and their checks, or NoDecorated
    call,        \* the last call of the wrapper: what was passed to it
    result,      \* what that call did: checks run, callable called, value returned
    \* ---- hints before decoration: validation and compilation
    validated,   \* the last object validated, and what the validator and the tester did
    compiled     \* the last hint compiled, and what make_check_expr returned or raised

cacheVars == <<cache, excs, pc, args, local, ret, compiles, returned, ncalls>>
checkVars == <<hint, conf, wrapper, pith, random_int, outcome>>
wrapVars == <<decorated, call, result>>
hintVars == <<validated, compiled>>
vars == <<cache, excs, pc, args, local, ret, compiles, returned, ncalls,
          hint, conf, wrapper, pith, random_int, outcome,
          decorated, call, result, validated, compiled>>

(***************************************************************************)
(* Bounds.                                                                 *)
(***************************************************************************)
MaxArity == 2      \* children of a union, items of a fixed tuple hint
MaxLen == 2        \* items of a list or tuple value
MaxRandom == 2     \* random integers are 0..MaxRandom
MaxThreads == 2    \* threads calling the memoized factory
MaxCalls == 3      \* calls of the memoized factory in one behaviour

(***************************************************************************)
(* Names of checkmagic.py.                                                 *)
(***************************************************************************)
ARG_NAME_GETRANDBITS == "__beartype_getrandbits"
ARG_NAME_RAISE_EXCEPTION == "__beartype_get_violation"
ARG_NAME_TYPISTRY == "__beartypistry"
VAR_NAME_RANDOM_INT == "__beartype_random_int"
VAR_NAME_PREFIX_PITH == "__beartype_pith_"

(***************************************************************************)
(* Python values: scalars of three types, lists and tuples.                *)
(***************************************************************************)
SeqsUpTo(S, n) == UNION {[1..k -> S] : k \in 0..n}

PyValue(t, items) == [t |-> t, items |-> items]
ScalarTypes == {"int", "str", "float"}
SequenceTypes == {"list", "tuple"}
Values0 == {PyValue(t, <<>>) : t \in ScalarTypes}
Values1 == {PyValue(t, items) : t \in SequenceTypes, items \in SeqsUpTo(Values0, MaxLen)}
\* one sequence in a list, and one list in a tuple
Values2 ==
    {PyValue("list", <<v>>) : v \in Values1}
    \cup {PyValue("tuple", <<v>>) : v \in {w \in Values1 : w.t = "list"}}
\* two sequences side by side: in a list (any two), in a tuple (two lists)
SiblingValues ==
    {PyValue("list", <<PyValue("int", <<>>)>>),
     PyValue("list", <<PyValue("str", <<>>)>>),
     PyValue("list", <<PyValue("int", <<>>), PyValue("str", <<>>)>>),
     PyValue("tuple", <<PyValue("int", <<>>)>>),
     PyValue("tuple", <<PyValue("int", <<>>), PyValue("str", <<>>)>>)}
Values3 ==
    {PyValue("list", <<v, w>>) : v \in SiblingValues, w \in SiblingValues}
    \cup {PyValue("tuple", <<v, w>>) :
              v \in {x \in SiblingValues : x.t = "list"},
              w \in {x \in SiblingValues : x.t = "list"}}
Values == Values0 \cup Values1 \cup Values2 \cup Values3
RandomInts == 0..MaxRandom

(***************************************************************************)
(* Type hints (specification nodes).                                       *)
(***************************************************************************)
Hint(kind, type, children) == [kind |-> kind, type |-> type, children |-> children]
Scalar(t) == Hint("Scalar", t, <<>>)
Union(children) == Hint("Union", "", children)
StandardContainer(element) == Hint("StandardContainer", "list", <<element>>)
FixedTuple(items) == Hint("FixedTuple", "tuple", items)
ForwardRef(name) == Hint("ForwardRef", name, <<>>)
Unsupported == Hint("Unsupported", "", <<>>)
NoHint == Hint("", "", <<>>)

\* "bytes" has no instance among Values: Scalar("bytes") accepts nothing.
HintTypes == {"int", "str", "bytes"}
ScalarHints == {Scalar(t) : t \in HintTypes}
ItemHints == {Scalar("int"), Scalar("str")}
UnionHints1 == {Union(cs) : cs \in SeqsUpTo(ItemHints, MaxArity) \ SeqsUpTo(ItemHints, 1)}
ContainerHints1 == {StandardContainer(e) : e \in ScalarHints}
TupleHints1 == {FixedTuple(cs) : cs \in SeqsUpTo(ItemHints, MaxArity)}
Hints1 == UnionHints1 \cup ContainerHints1 \cup TupleHints1
\* children of the nested unions: containers, and tuples of ints of every arity
NestedChildren == ContainerHints1 \cup {FixedTuple(cs) : cs \in SeqsUpTo({Scalar("int")}, MaxArity)}
Hints2 ==
    {StandardContainer(e) : e \in Hints1}
    \cup {FixedTuple(<<e>>) : e \in ContainerHints1}
    \cup {Union(<<a, b>>) : a \in NestedChildren, b \in NestedChildren}
\* fixed tuples whose two items are sequences: sibling subtrees of one depth
SiblingHints ==
    {StandardContainer(Scalar("int")), StandardContainer(Scalar("str")),
     FixedTuple(<<Scalar("str")>>)}
Hints3 == {FixedTuple(<<a, b>>) : a \in SiblingHints, b \in SiblingHints}
\* hints holding forward references
RefHints ==
    {ForwardRef("A"),
     Union(<<Scalar("int"), ForwardRef("A")>>),
     StandardContainer(ForwardRef("B")),
     FixedTuple(<<ForwardRef("A"), ForwardRef("B")>>)}
\* forward references below a container or a tuple item
RefHints2 ==
    {StandardContainer(Union(<<Scalar("int"), ForwardRef("A")>>)),
     FixedTuple(<<StandardContainer(ForwardRef("B")), ForwardRef("A")>>),
     FixedTuple(<<Scalar("int"), StandardContainer(StandardContainer(ForwardRef("C")))>>),
     Union(<<ForwardRef("A"), ForwardRef("A")>>)}

Hints == ScalarHints \cup Hints1 \cup Hints2 \cup Hints3

Conf(sampling) == [sampling |-> sampling]
Confs == {Conf(TRUE), Conf(FALSE)}

(***************************************************************************)
(* Generated code: one node per Python operator a snippet spells.          *)
(*   name     __beartype_pith_<d>                                          *)
(*   assign   __beartype_pith_<d> := <args[1]>                             *)
(*   item     <args[1]>[<i>]                                               *)
(*   randitem <args[1]>[__beartype_random_int % len(<args[1]>)]            *)
(*   isinstance, not, and, or: as in Python                                *)
(*   all      all(<args[2]> for __beartype_pith_<d> in <args[1]>)          *)
(*   forwardref  test against the class a forward reference names          *)
(***************************************************************************)
Expr(op, d, i, type, subs) == [op |-> op, d |-> d, i |-> i, type |-> type, args |-> subs]
Name(d) == Expr("name", d, 0, "", <<>>)
IsInstance(e, type) == Expr("isinstance", 0, 0, type, <<e>>)
Not(e) == Expr("not", 0, 0, "", <<e>>)
And(es) == Expr("and", 0, 0, "", es)
Or(es) == Expr("or", 0, 0, "", es)

PEP_CODE_PITH_ASSIGN_EXPR(pith_curr_assigned_expr, pith_curr_expr) ==
    Expr("assign", pith_curr_assigned_expr.d, 0, "", <<pith_curr_expr>>)

PEP_CODE_PITH_ROOT_NAME == Name(0)

PEP_CODE_CHECK_HINT_NONPEP_TYPE(pith_curr_expr, hint_curr_expr) ==
    IsInstance(pith_curr_expr, hint_curr_expr)

\* (mutant) the type test reads the pith variable instead of assigning it
PEP_CODE_CHECK_HINT_SEQUENCE_STANDARD_unassigning(pith_curr_assign_expr, pith_curr_assigned_expr, hint_curr_expr, hint_child_placeholder) ==
    And(<<IsInstance(pith_curr_assigned_expr, hint_curr_expr),
          Or(<<Not(pith_curr_assigned_expr), hint_child_placeholder>>)>>)

\* (mutant) the emptiness test spells the assignment expression a second time
PEP_CODE_CHECK_HINT_SEQUENCE_STANDARD_reassigning(pith_curr_assign_expr, pith_curr_assigned_expr, hint_curr_expr, hint_child_placeholder) ==
    And(<<IsInstance(pith_curr_assign_expr, hint_curr_expr),
          Or(<<Not(pith_curr_assign_expr), hint_child_placeholder>>)>>)

\* (mutant) the emptiness guard "not <pith> or" is left out
PEP_CODE_CHECK_HINT_SEQUENCE_STANDARD_unguarded(pith_curr_assign_expr, pith_curr_assigned_expr, hint_curr_expr, hint_child_placeholder) ==
    And(<<IsInstance(pith_curr_assign_expr, hint_curr_expr), hint_child_placeholder>>)

PEP_CODE_CHECK_HINT_SEQUENCE_STANDARD(pith_curr_assign_expr, pith_curr_assigned_expr, hint_curr_expr, hint_child_placeholder) ==
    And(<<IsInstance(pith_curr_assign_expr, hint_curr_expr),
          Or(<<Not(pith_curr_assigned_expr), hint_child_placeholder>>)>>)

\* (mutant) the item tested is always the first one
PEP_CODE_CHECK_HINT_SEQUENCE_STANDARD_PITH_CHILD_EXPR_first(pith_curr_assigned_expr) ==
    Expr("item", 0, 0, "", <<pith_curr_assigned_expr>>)

PEP_CODE_CHECK_HINT_SEQUENCE_STANDARD_PITH_CHILD_EXPR(pith_curr_assigned_expr) ==
    Expr("randitem", 0, 0, "", <<pith_curr_assigned_expr>>)

\* The tuple and union snippets end in " and" / " or"; a rendered fragment is
\* kept as the sequence of its operands, which the suffix snippet closes.
PEP_CODE_CHECK_HINT_TUPLE_ITEMIZED_PREFIX(pith_curr_assign_expr, hint_curr_expr) ==
    <<IsInstance(pith_curr_assign_expr, hint_curr_expr)>>

PEP_CODE_CHECK_HINT_TUPLE_ITEMIZED_SUFFIX(operands) == And(operands)

\* (mutant) the emptiness test is left out of the fragment
PEP_CODE_CHECK_HINT_TUPLE_ITEMIZED_EMPTY_omitted(pith_curr_assigned_expr) == <<>>

PEP_CODE_CHECK_HINT_TUPLE_ITEMIZED_EMPTY(pith_curr_assigned_expr) ==
    <<Not(pith_curr_assigned_expr)>>

PEP_CODE_CHECK_HINT_TUPLE_ITEMIZED_NONEMPTY_CHILD(hint_child_placeholder) ==
    <<hint_child_placeholder>>

PEP_CODE_CHECK_HINT_TUPLE_ITEMIZED_NONEMPTY_PITH_CHILD_EXPR(pith_curr_assigned_expr, pith_child_index) ==
    Expr("item", 0, pith_child_index, "", <<pith_curr_assigned_expr>>)

PEP_CODE_CHECK_HINT_UNION_PREFIX == <<>>

PEP_CODE_CHECK_HINT_UNION_SUFFIX(operands) == Or(operands)

PEP_CODE_CHECK_HINT_UNION_CHILD_PEP(hint_child_placeholder) ==
    <<hint_child_placeholder>>

PEP_CODE_CHECK_HINT_UNION_CHILD_NONPEP(pith_curr_expr, hint_curr_expr) ==
    <<IsInstance(pith_curr_expr, hint_curr_expr)>>

\* Fragments the snippets of _pepsnip.py do not provide.
CODE_CHECK_ALL_ITEMS(pith_item_expr, pith_curr_assigned_expr, hint_child_placeholder) ==
    Expr("all", pith_item_expr.d, 0, "", <<pith_curr_assigned_expr, hint_child_placeholder>>)

CODE_CHECK_FORWARDREF(pith_curr_expr, name) ==
    Expr("forwardref", 0, 0, name, <<pith_curr_expr>>)

(***************************************************************************)
(* Python evaluation of generated code.  An evaluation carries the local   *)
(* pith variables (slots: depth -> value) and a log of the slot            *)
(* assignments and item reads it has made; it yields a truth value b or a  *)
(* value v, or the kind of the exception it raised.  A log entry names the *)
(* slot d assigned or read from and the index i read; the entries "enter"  *)
(* and "exit" carry the slot of the fragment in i.                         *)
(***************************************************************************)
NoExc == ""
NoValue == PyValue("none", <<>>)
Result(exc, b, v, slots, log) == [exc |-> exc, b |-> b, v |-> v, slots |-> slots, log |-> log]
Raise(exc, r) == Result(exc, FALSE, NoValue, r.slots, r.log)
Bind(slots, d, v) == [x \in DOMAIN slots \cup {d} |-> IF x = d THEN v ELSE slots[x]]
LogEntry(op, d, i) == [op |-> op, d |-> d, i |-> i]

\* bool(value): a sequence is true iff it is non-empty
Truthy(v) == IF v.t \in SequenceTypes THEN Len(v.items) > 0 ELSE TRUE

\* the slot holding the pith of a container or tuple fragment: the one its
\* type test (the first operand) names or assigns
SlotOf(e) == IF e.args[1].op = "isinstance" THEN e.args[1].args[1].d ELSE -1

RECURSIVE Eval(_, _, _, _)
RECURSIVE EvalAnd(_, _, _, _, _)
RECURSIVE EvalOr(_, _, _, _, _)
RECURSIVE EvalAll(_, _, _, _, _, _)

Eval(e, slots, log, rnd) ==
    CASE e.op = "name" ->
           IF e.d \in DOMAIN slots
           THEN Result(NoExc, FALSE, slots[e.d], slots, log)
           ELSE Result("UnboundLocalError", FALSE, NoValue, slots, log)
      [] e.op = "assign" ->
           LET r == Eval(e.args[1], slots, log, rnd) IN
           IF r.exc # NoExc THEN r
           ELSE Result(NoExc, FALSE, r.v, Bind(r.slots, e.d, r.v),
                       Append(r.log, LogEntry("assign", e.d, 0)))
      [] e.op = "item" ->
           LET r == Eval(e.args[1], slots, log, rnd) IN
           IF r.exc # NoExc THEN r
           ELSE IF r.v.t \notin SequenceTypes THEN Raise("TypeError", r)
           ELSE IF e.i >= Len(r.v.items) THEN Raise("IndexError", r)
           ELSE Result(NoExc, FALSE, r.v.items[e.i + 1], r.slots,
                       Append(r.log, LogEntry("item", e.args[1].d, e.i)))
      [] e.op = "randitem" ->
           LET r == Eval(e.args[1], slots, log, rnd) IN
           IF r.exc # NoExc THEN r
           ELSE IF r.v.t \notin SequenceTypes THEN Raise("TypeError", r)
           ELSE IF Len(r.v.items) = 0 THEN Raise("ZeroDivisionError", r)
           ELSE Result(NoExc, FALSE, r.v.items[(rnd % Len(r.v.items)) + 1], r.slots,
                       Append(r.log, LogEntry("randitem", e.args[1].d, rnd % Len(r.v.items))))
      [] e.op = "isinstance" ->
           LET r == Eval(e.args[1], slots, log, rnd) IN
           IF r.exc # NoExc THEN r
           ELSE Result(NoExc, r.v.t = e.type, NoValue, r.slots, r.log)
      [] e.op = "forwardref" ->
           LET r == Eval(e.args[1], slots, log, rnd) IN
           IF r.exc # NoExc THEN r ELSE Raise("UnresolvedForwardReference", r)
      [] e.op = "not" ->
           LET r == Eval(e.args[1], slots, log, rnd) IN
           IF r.exc # NoExc THEN r
           ELSE Result(NoExc, ~Truthy(r.v), NoValue, r.slots, r.log)
      [] e.op = "and" ->
           \* a container or tuple fragment: its evaluation is bracketed in the log
           LET r == EvalAnd(e.args, 1, slots, Append(log, LogEntry("enter", -1, SlotOf(e))), rnd)
           IN [r EXCEPT !.log = Append(@, LogEntry("exit", -1, SlotOf(e)))]
      [] e.op = "or" -> EvalOr(e.args, 1, slots, log, rnd)
      [] e.op = "all" ->
           LET r == Eval(e.args[1], slots, log, rnd) IN
           IF r.exc # NoExc THEN r
           ELSE IF r.v.t \notin SequenceTypes THEN Raise("TypeError", r)
           ELSE EvalAll(e, r.v.items, 1, r.slots, r.log, rnd)

\* a and b and ...: the first false (or raising) operand ends the evaluation
EvalAnd(es, k, slots, log, rnd) ==
    LET r == Eval(es[k], slots, log, rnd) IN
    IF r.exc # NoExc \/ ~r.b \/ k = Len(es) THEN r
    ELSE EvalAnd(es, k + 1, r.slots, r.log, rnd)

\* a or b or ...: the first true (or raising) operand ends the evaluation
EvalOr(es, k, slots, log, rnd) ==
    LET r == Eval(es[k], slots, log, rnd) IN
    IF r.exc # NoExc \/ r.b \/ k = Len(es) THEN r
    ELSE EvalOr(es, k + 1, r.slots, r.log, rnd)

\* all(child for pith_d in items): the first false item ends the iteration
EvalAll(e, items, k, slots, log, rnd) ==
    IF k > Len(items) THEN Result(NoExc, TRUE, NoValue, slots, log)
    ELSE LET bound == Bind(slots, e.d, items[k])
             r == Eval(e.args[2], bound, Append(log, LogEntry("iter", e.args[1].d, k - 1)), rnd)
         IN IF r.exc # NoExc \/ ~r.b THEN r
            ELSE EvalAll(e, items, k + 1, r.slots, r.log, rnd)

(***************************************************************************)
(* The expression compiler make_check_expr: walks the hint depth-first and *)
(* renders each node with the snippets above.                              *)
(***************************************************************************)
KnownKinds == {"Scalar", "Union", "StandardContainer", "FixedTuple", "ForwardRef"}

RECURSIVE Concat(_)
Concat(seqs) == IF seqs = <<>> THEN <<>> ELSE Head(seqs) \o Concat(Tail(seqs))

\* (mutant) only a node and its children are looked at: deeper trees are refused
IsSupported_flat(node) ==
    /\ node.kind \in KnownKinds
    /\ \A k \in 1..Len(node.children) :
          /\ node.children[k].kind \in KnownKinds
          /\ node.children[k].children = <<>>

RECURSIVE IsSupported(_)
IsSupported(node) ==
    /\ node.kind \in KnownKinds
    /\ \A k \in 1..Len(node.children) : IsSupported(node.children[k])

RECURSIVE ForwardRefsOf(_)
ForwardRefsOf(node) ==
    (IF node.kind = "ForwardRef" THEN {node.type} ELSE {})
    \cup UNION {ForwardRefsOf(node.children[k]) : k \in 1..Len(node.children)}

RECURSIVE Symbols(_)
Symbols(e) ==
    (CASE e.op \in {"isinstance", "forwardref"} -> {e.type}
       [] e.op = "randitem" -> {ARG_NAME_GETRANDBITS}
       [] OTHER -> {})
    \cup UNION {Symbols(e.args[k]) : k \in 1..Len(e.args)}

\* The slot a node at this depth keeps its pith in, and the expression that
\* fills it: a pith that is already a plain variable (the root pith) is used as
\* it is, any other is assigned to __beartype_pith_<depth> on its first use
\* (a pith handed down as an assignment expression is that first use).
PithAssigned(pith_curr_expr, depth) ==
    IF pith_curr_expr.op = "name" THEN pith_curr_expr
    ELSE IF pith_curr_expr.op = "assign" THEN Name(pith_curr_expr.d)
    ELSE Name(depth)
PithAssign(pith_curr_expr, depth) ==
    IF pith_curr_expr.op \in {"name", "assign"} THEN pith_curr_expr
    ELSE PEP_CODE_PITH_ASSIGN_EXPR(Name(depth), pith_curr_expr)

RECURSIVE compile(_, _, _, _)
compile(node, pith_curr_expr, depth, cnf) ==
    LET assigned == PithAssigned(pith_curr_expr, depth)
        assign == PithAssign(pith_curr_expr, depth)
    IN
    CASE node.kind = "Scalar" ->
           PEP_CODE_CHECK_HINT_NONPEP_TYPE(pith_curr_expr, node.type)
      [] node.kind = "Union" ->
           PEP_CODE_CHECK_HINT_UNION_SUFFIX(
               PEP_CODE_CHECK_HINT_UNION_PREFIX \o
               Concat([k \in 1..Len(node.children) |->
                   \* the first child, always evaluated, captures the pith
                   LET pith_child_expr == IF k = 1 THEN assign ELSE assigned IN
                   IF node.children[k].kind = "Scalar"
                   THEN PEP_CODE_CHECK_HINT_UNION_CHILD_NONPEP(
                            pith_child_expr, node.children[k].type)
                   ELSE PEP_CODE_CHECK_HINT_UNION_CHILD_PEP(
                            compile(node.children[k], pith_child_expr, depth, cnf))]))
      [] node.kind = "StandardContainer" ->
           IF cnf.sampling
           THEN PEP_CODE_CHECK_HINT_SEQUENCE_STANDARD(
                    assign, assigned, node.type,
                    compile(node.children[1],
                            PEP_CODE_CHECK_HINT_SEQUENCE_STANDARD_PITH_CHILD_EXPR(assigned),
                            depth + 1, cnf))
           ELSE PEP_CODE_CHECK_HINT_SEQUENCE_STANDARD(
                    assign, assigned, node.type,
                    CODE_CHECK_ALL_ITEMS(
                        Name(depth + 1), assigned,
                        compile(node.children[1], Name(depth + 1), depth + 1, cnf)))
      [] node.kind = "FixedTuple" ->
           PEP_CODE_CHECK_HINT_TUPLE_ITEMIZED_SUFFIX(
               PEP_CODE_CHECK_HINT_TUPLE_ITEMIZED_PREFIX(assign, node.type) \o
               (IF node.children = <<>>
                THEN PEP_CODE_CHECK_HINT_TUPLE_ITEMIZED_EMPTY(assigned)
                ELSE Concat([k \in 1..Len(node.children) |->
                         PEP_CODE_CHECK_HINT_TUPLE_ITEMIZED_NONEMPTY_CHILD(
                             compile(node.children[k],
                                     PEP_CODE_CHECK_HINT_TUPLE_ITEMIZED_NONEMPTY_PITH_CHILD_EXPR(
                                         assigned, k - 1),
                                     depth + 1, cnf))])))
      [] node.kind = "ForwardRef" ->
           CODE_CHECK_FORWARDREF(pith_curr_expr, node.type)

NoExpr == Expr("", 0, 0, "", <<>>)
Compiled(exc, expr, scope, forwardrefs) ==
    [exc |-> exc, code |-> expr, scope |-> scope, forwardrefs |-> forwardrefs]

make_check_expr(hint_root, cnf) ==
    IF ~IsSupported(hint_root)
    THEN Compiled("UnsupportedSpecification", NoExpr, {}, {})
    ELSE LET expr == compile(hint_root, PEP_CODE_PITH_ROOT_NAME, 0, cnf)
         IN Compiled(NoExc, expr, Symbols(expr) \cup {ARG_NAME_RAISE_EXCEPTION},
                     ForwardRefsOf(hint_root))

(***************************************************************************)
(* The root check around the compiled expression, and the factory          *)
(* make_func_wrapper_code that assembles it.                               *)
(***************************************************************************)
PARAM_NAME_FUNC == "__beartype_func"
PEP_CODE_PITH_ROOT_PARAM_NAME_PLACEHOLDER == "?|PITH_ROOT_NAME^"
Str(text) == Expr("str", 0, 0, text, <<>>)

\* (mutant) the callback is passed the innermost pith instead of the root pith
PEP_CODE_CHECK_HINT_ROOT_passing_child(hint_child_placeholder, random_int_if_any) ==
    Expr("root", 0, 0, random_int_if_any,
         <<hint_child_placeholder, Name(1), Str(PEP_CODE_PITH_ROOT_PARAM_NAME_PLACEHOLDER)>>)

\* if not <args[1]>:
\*     <callback>(func=__beartype_func, pith_name=<args[3]>, pith_value=<args[2]>
\*                [, the random integer])
PEP_CODE_CHECK_HINT_ROOT(hint_child_placeholder, random_int_if_any) ==
    Expr("root", 0, 0, random_int_if_any,
         <<hint_child_placeholder, PEP_CODE_PITH_ROOT_NAME,
           Str(PEP_CODE_PITH_ROOT_PARAM_NAME_PLACEHOLDER)>>)

CODE_HINT_ROOT_SUFFIX_RANDOM_INT == VAR_NAME_RANDOM_INT

\* (mutant) an exception of make_check_expr is swallowed: the factory then
\* returns a check of the bare root pith
make_func_wrapper_code_swallowing(hint_root, cnf) ==
    LET made == make_check_expr(hint_root, cnf)
    IN IF made.exc # NoExc
       THEN Compiled(NoExc, PEP_CODE_CHECK_HINT_ROOT(PEP_CODE_PITH_ROOT_NAME, ""),
                     {ARG_NAME_RAISE_EXCEPTION}, {})
       ELSE Compiled(NoExc,
                     PEP_CODE_CHECK_HINT_ROOT(
                         made.code,
                         IF ARG_NAME_GETRANDBITS \in made.scope
                         THEN CODE_HINT_ROOT_SUFFIX_RANDOM_INT ELSE ""),
                     made.scope, made.forwardrefs)

\* (mutant) the factory passes the random integer whatever the scope holds
make_func_wrapper_code_always_random_int(hint_root, cnf) ==
    LET made == make_check_expr(hint_root, cnf)
    IN IF made.exc # NoExc THEN made
       ELSE Compiled(NoExc,
                     PEP_CODE_CHECK_HINT_ROOT(made.code, CODE_HINT_ROOT_SUFFIX_RANDOM_INT),
                     made.scope, made.forwardrefs)

\* (mutant) the factory forgets the forward references of the compiler
make_func_wrapper_code_dropping_forwardrefs(hint_root, cnf) ==
    LET made == make_check_expr(hint_root, cnf)
        func_wrapper_code_random_int_if_any ==
            IF ARG_NAME_GETRANDBITS \in made.scope
            THEN CODE_HINT_ROOT_SUFFIX_RANDOM_INT ELSE ""
    IN IF made.exc # NoExc THEN made
       ELSE Compiled(NoExc,
                     PEP_CODE_CHECK_HINT_ROOT(made.code, func_wrapper_code_random_int_if_any),
                     made.scope, {})

make_func_wrapper_code(hint_root, cnf) ==
    LET made == make_check_expr(hint_root, cnf)
        func_wrapper_code_random_int_if_any ==
            IF ARG_NAME_GETRANDBITS \in made.scope
            THEN CODE_HINT_ROOT_SUFFIX_RANDOM_INT ELSE ""
    IN IF made.exc # NoExc THEN made
       ELSE Compiled(NoExc,
                     PEP_CODE_CHECK_HINT_ROOT(made.code, func_wrapper_code_random_int_if_any),
                     made.scope, made.forwardrefs)

\* One check invocation: run the root check on a value with a random integer.
\* The callback raises the violation; "violation" records the call made to it.
Violation(func, pith_name, pith_value, rnd) ==
    [func |-> func, pith_name |-> pith_name, pith_value |-> pith_value, random_int |-> rnd]
NoViolation == Violation("", "", NoValue, -1)
Outcome(status, violation, log, pith_root) ==
    [status |-> status, violation |-> violation, log |-> log, pith_root |-> pith_root]
NoOutcome == Outcome("none", NoViolation, <<>>, NoValue)

RunCheck(code, value, rnd) ==
    LET r == Eval(code.args[1], (0 :> value), <<>>, rnd) IN
    IF r.exc # NoExc THEN Outcome(r.exc, NoViolation, r.log, r.slots[0])
    ELSE IF r.b THEN Outcome("pass", NoViolation, r.log, r.slots[0])
    ELSE LET pith_value == Eval(code.args[2], r.slots, r.log, rnd) IN
         IF pith_value.exc # NoExc
         THEN Outcome(pith_value.exc, NoViolation, r.log, r.slots[0])
         ELSE Outcome("violation",
                      Violation(PARAM_NAME_FUNC, code.args[3].type, pith_value.v,
                                IF code.type = "" THEN -1 ELSE rnd),
                      r.log, r.slots[0])

\* The outcome of checking a value against a hint: compile, then run.
Check(hint_root, cnf, value, rnd) ==
    RunCheck(make_func_wrapper_code(hint_root, cnf).code, value, rnd).status

(***************************************************************************)
(* The memoized factory: @callable_cached around make_func_wrapper_code.   *)
(* The memoizer keeps one dictionary of return values and one of raised    *)
(* exceptions, both keyed on the call's arguments; it takes no lock, so a  *)
(* call is four steps that other threads may interleave with.              *)
(***************************************************************************)
Threads == 1..MaxThreads
CacheHints == {Scalar("int"), StandardContainer(Scalar("int")), Unsupported}
AllArgs == CacheHints \X Confs
EmptyDict == [k \in {} |-> NoExpr]
Put(dict, k, v) == [x \in DOMAIN dict \cup {k} |-> IF x = k THEN v ELSE dict[x]]
NoReturn == Compiled("none", NoExpr, {}, {})

\* (mutant) the key leaves the configuration out
CacheKeyHintOnly(hint_root, cnf) == <<hint_root>>

\* The key of a memoized call: its positional arguments.
CacheKey(hint_root, cnf) == <<hint_root, cnf>>
KeyOf(t) == CacheKey(args[t][1], args[t][2])

\* A thread calls make_func_wrapper_code(hint, conf).
Call(t, h, c) ==
    /\ pc[t] = "idle"
    /\ ncalls < MaxCalls
    /\ pc' = [pc EXCEPT ![t] = "lookup"]
    /\ args' = [args EXCEPT ![t] = <<h, c>>]
    /\ ncalls' = ncalls + 1
    /\ UNCHANGED <<cache, excs, local, ret, compiles, returned>>

\* The memoizer looks the key up: a memoized exception is raised again, a
\* memoized value is returned, and otherwise the body is called.
Lookup(t) ==
    /\ pc[t] = "lookup"
    /\ IF KeyOf(t) \in DOMAIN excs
       THEN /\ ret' = [ret EXCEPT ![t] = excs[KeyOf(t)]]
            /\ returned' = [returned EXCEPT ![args[t]] = @ \cup {excs[KeyOf(t)]}]
            /\ pc' = [pc EXCEPT ![t] = "idle"]
       ELSE IF KeyOf(t) \in DOMAIN cache
       THEN /\ ret' = [ret EXCEPT ![t] = cache[KeyOf(t)]]
            /\ returned' = [returned EXCEPT ![args[t]] = @ \cup {cache[KeyOf(t)]}]
            /\ pc' = [pc EXCEPT ![t] = "idle"]
       ELSE /\ pc' = [pc EXCEPT ![t] = "body"]
            /\ UNCHANGED <<ret, returned>>
    /\ UNCHANGED <<cache, excs, args, local, compiles, ncalls>>

\* (mutant) the body calls make_check_expr a second time for the scope
BodyCompilingTwice(t) ==
    /\ pc[t] = "body"
    /\ local' = [local EXCEPT ![t] = make_func_wrapper_code(args[t][1], args[t][2])]
    /\ compiles' = [compiles EXCEPT ![args[t]] = @ + 2]
    /\ pc' = [pc EXCEPT ![t] = "store"]
    /\ UNCHANGED <<cache, excs, args, ret, returned, ncalls>>

\* The body of make_func_wrapper_code: one call of make_check_expr.
Body(t) ==
    /\ pc[t] = "body"
    /\ local' = [local EXCEPT ![t] = make_func_wrapper_code(args[t][1], args[t][2])]
    /\ compiles' = [compiles EXCEPT ![args[t]] = @ + 1]
    /\ pc' = [pc EXCEPT ![t] = "store"]
    /\ UNCHANGED <<cache, excs, args, ret, returned, ncalls>>

\* The memoizer stores what the body returned or raised, and passes it on.
Store(t) ==
    /\ pc[t] = "store"
    /\ IF local[t].exc # NoExc
       THEN /\ excs' = Put(excs, KeyOf(t), local[t])
            /\ UNCHANGED cache
       ELSE /\ cache' = Put(cache, KeyOf(t), local[t])
            /\ UNCHANGED excs
    /\ ret' = [ret EXCEPT ![t] = local[t]]
    /\ returned' = [returned EXCEPT ![args[t]] = @ \cup {local[t]}]
    /\ pc' = [pc EXCEPT ![t] = "idle"]
    /\ UNCHANGED <<args, local, compiles, ncalls>>

\* A call issued while no other call is in progress.
SeqCall(t, h, c) ==
    /\ \A u \in Threads : pc[u] = "idle"
    /\ Call(t, h, c)

(***************************************************************************)
(* One decorated parameter: the decorator compiles its hint once, and each *)
(* call of the wrapper runs the generated check on the passed value.       *)
(***************************************************************************)
Decorate(h, c) ==
    /\ hint = NoHint
    /\ make_func_wrapper_code(h, c).exc = NoExc
    /\ hint' = h
    /\ conf' = c
    /\ wrapper' = make_func_wrapper_code(h, c)
    /\ UNCHANGED <<pith, random_int, outcome>>

CallWrapper(value, rnd) ==
    /\ hint # NoHint
    /\ outcome = NoOutcome
    /\ pith' = value
    /\ random_int' = rnd
    /\ outcome' = RunCheck(wrapper.code, value, rnd)
    /\ UNCHANGED <<hint, conf, wrapper>>

\* The wrapper call is over: its local variables are gone.
ReturnWrapper ==
    /\ outcome # NoOutcome
    /\ pith' = NoValue
    /\ random_int' = 0
    /\ outcome' = NoOutcome
    /\ UNCHANGED <<hint, conf, wrapper>>

(***************************************************************************)
(* The wrapper of one decorated callable with one checked parameter and a  *)
(* checked return: the parameter is localized and checked, the callable is *)
(* called, and the value it returns is checked and returned.               *)
(***************************************************************************)
MaxArgs == 2       \* positional arguments of a call of the wrapper

POSITIONAL_OR_KEYWORD == "POSITIONAL_OR_KEYWORD"
KEYWORD_ONLY == "KEYWORD_ONLY"
VAR_POSITIONAL == "VAR_POSITIONAL"
ParamKinds == {POSITIONAL_OR_KEYWORD, KEYWORD_ONLY, VAR_POSITIONAL}

\* the value of the hidden parameter __beartypistry, which no caller passes
Beartypistry == PyValue(ARG_NAME_TYPISTRY, <<>>)
\* kwargs.get(key, default)
KwargsGet(kwargs, key, default) == IF key \in DOMAIN kwargs THEN kwargs[key] ELSE default
\* seq[n:]
SliceFrom(seq, n) == [k \in 1..(IF Len(seq) > n THEN Len(seq) - n ELSE 0) |-> seq[k + n]]
Localized(pith_root, piths) == [pith_root |-> pith_root, piths |-> piths]

\* (mutant) a positional or keyword parameter is looked for in args only
PARAM_KIND_TO_PEP_CODE_GET_args_only(kind, arg_index, arg_name, call_args, call_kwargs) ==
    LET pith_root ==
            IF kind = VAR_POSITIONAL THEN NoValue
            ELSE IF kind = POSITIONAL_OR_KEYWORD
            THEN IF Len(call_args) > arg_index THEN call_args[arg_index + 1] ELSE Beartypistry
            ELSE KwargsGet(call_kwargs, arg_name, Beartypistry)
    IN IF kind = VAR_POSITIONAL THEN Localized(NoValue, SliceFrom(call_args, arg_index))
       ELSE Localized(pith_root, IF pith_root # Beartypistry THEN <<pith_root>> ELSE <<>>)

\* The snippet localizing a parameter of this kind: the value the root pith is
\* set to, and the values the check below the snippet runs on, in order.
PARAM_KIND_TO_PEP_CODE_GET(kind, arg_index, arg_name, call_args, call_kwargs) ==
    CASE kind = POSITIONAL_OR_KEYWORD ->
           LET __beartype_args_len == Len(call_args)
               pith_root ==
                   IF __beartype_args_len > arg_index THEN call_args[arg_index + 1]
                   ELSE KwargsGet(call_kwargs, arg_name, Beartypistry)
           IN Localized(pith_root, IF pith_root # Beartypistry THEN <<pith_root>> ELSE <<>>)
      [] kind = KEYWORD_ONLY ->
           LET pith_root == KwargsGet(call_kwargs, arg_name, Beartypistry)
           IN Localized(pith_root, IF pith_root # Beartypistry THEN <<pith_root>> ELSE <<>>)
      [] kind = VAR_POSITIONAL ->
           Localized(NoValue, SliceFrom(call_args, arg_index))

\* The decorated callable is called with all the passed arguments; what it
\* returns becomes the root pith.
FuncCall(call_args, call_kwargs) == [args |-> call_args, kwargs |-> call_kwargs]
PEP_CODE_CHECK_RETURN_PREFIX(func_calls, call_args, call_kwargs, func_result) ==
    [func_calls |-> Append(func_calls, FuncCall(call_args, call_kwargs)),
     pith_root |-> func_result]

\* (mutant) the wrapper calls the callable again and returns that result
PEP_CODE_CHECK_RETURN_SUFFIX_calling_again(func_calls, call_args, call_kwargs, func_result, pith_root) ==
    [func_calls |-> Append(func_calls, FuncCall(call_args, call_kwargs)),
     value |-> func_result]

\* return <root pith>
PEP_CODE_CHECK_RETURN_SUFFIX(func_calls, call_args, call_kwargs, func_result, pith_root) ==
    [func_calls |-> func_calls, value |-> pith_root]

\* The name of the root pith replaces the placeholder of the root check.
ReplacePlaceholder(code, pith_root_name) ==
    [code EXCEPT !.args[3] = Str(pith_root_name)]

\* The check below a localizing snippet, run on each localized value in turn:
\* the first check that does not pass raises and ends the call.
RECURSIVE RunChecks(_, _, _, _, _)
RunChecks(slot, code, piths, k, rnd) ==
    IF k > Len(piths) THEN <<>>
    ELSE LET o == RunCheck(code, piths[k], rnd)
             this == <<[slot |-> slot, pith |-> piths[k], outcome |-> o]>>
         IN IF o.status # "pass" THEN this
            ELSE this \o RunChecks(slot, code, piths, k + 1, rnd)

FuncRaises == PyValue("raise", <<>>)
WrapperResult(localized, checks, func_calls, status, value) ==
    [localized |-> localized, checks |-> checks, func_calls |-> func_calls,
     status |-> status, value |-> value]

\* One call of the wrapper, from the localizing of the parameter to the return.
RunWrapper(dec, call_args, call_kwargs, rnd, func_result) ==
    LET got == PARAM_KIND_TO_PEP_CODE_GET(dec.kind, dec.arg_index, dec.arg_name,
                                          call_args, call_kwargs)
        param_checks == RunChecks("param", dec.param, got.piths, 1, rnd)
        param_status ==
            IF param_checks = <<>> THEN "pass"
            ELSE param_checks[Len(param_checks)].outcome.status
    IN IF param_status # "pass"
       THEN WrapperResult(got.pith_root, param_checks, <<>>, param_status, NoValue)
       ELSE LET called == PEP_CODE_CHECK_RETURN_PREFIX(<<>>, call_args, call_kwargs, func_result)
            IN IF func_result = FuncRaises
               THEN WrapperResult(got.pith_root, param_checks, called.func_calls,
                                  "FuncRaised", NoValue)
               ELSE LET o == RunCheck(dec.return, called.pith_root, rnd)
                        checks == Append(param_checks,
                                      [slot |-> "return", pith |-> called.pith_root, outcome |-> o])
                        done == PEP_CODE_CHECK_RETURN_SUFFIX(called.func_calls, call_args,
                                      call_kwargs, func_result, o.pith_root)
                    IN IF o.status # "pass"
                       THEN WrapperResult(got.pith_root, checks, called.func_calls,
                                          o.status, NoValue)
                       ELSE WrapperResult(got.pith_root, checks, done.func_calls,
                                          "returned", done.value)

NoDecorated == [kind |-> ""]
NoCall == [args |-> <<>>]
NoResult == WrapperResult(NoValue, <<>>, <<>>, "none", NoValue)

\* The decorator builds the wrapper of a callable whose parameter arg_name, of
\* this kind and at this index, and whose return are annotated.
DecorateCallable(kind, arg_index, arg_name, hint_param, hint_return, cnf) ==
    /\ decorated = NoDecorated
    /\ make_func_wrapper_code(hint_param, cnf).exc = NoExc
    /\ make_func_wrapper_code(hint_return, cnf).exc = NoExc
    /\ decorated' =
          [kind |-> kind, arg_index |-> arg_index, arg_name |-> arg_name,
           hint_param |-> hint_param, hint_return |-> hint_return, conf |-> cnf,
           param |-> ReplacePlaceholder(make_func_wrapper_code(hint_param, cnf).code, arg_name),
           return |-> ReplacePlaceholder(make_func_wrapper_code(hint_return, cnf).code, "return")]
    /\ UNCHANGED <<call, result>>

CallDecorated(call_args, call_kwargs, rnd, func_result) ==
    /\ decorated # NoDecorated
    /\ result = NoResult
    /\ call' = [args |-> call_args, kwargs |-> call_kwargs, random_int |-> rnd,
                func_result |-> func_result]
    /\ result' = RunWrapper(decorated, call_args, call_kwargs, rnd, func_result)
    /\ UNCHANGED decorated

\* The call is over: its local variables are gone.
ReturnDecorated ==
    /\ result # NoResult
    /\ call' = NoCall
    /\ result' = NoResult
    /\ UNCHANGED decorated

(***************************************************************************)
(* Hints before decoration.  The validator die_unless_hint and the tester  *)
(* is_hint decide whether an object is a hint the decorator supports; the  *)
(* compiler make_check_expr then renders it or fails on a node kind it     *)
(* does not know.  An object is a class, a hint of the typing module (a    *)
(* hint tree), a string naming a class, a number, or a list.               *)
(***************************************************************************)
Object(cat, tree) == [cat |-> cat, hint |-> tree]
\* classes, and strings naming classes
NONPEP_HINTS == {Object("class", Scalar(t)) : t \in HintTypes} \cup {Object("str", ForwardRef("dict"))}
\* hints of the typing module, supported or not
PepTrees ==
    {Union(<<Scalar("int"), Scalar("str")>>), StandardContainer(Scalar("int")),
     FixedTuple(<<>>), FixedTuple(<<Scalar("int"), StandardContainer(Scalar("str"))>>),
     StandardContainer(StandardContainer(Union(<<Scalar("int"), Scalar("str")>>))),
     Unsupported, StandardContainer(Unsupported), Union(<<Scalar("int"), Unsupported>>),
     FixedTuple(<<Scalar("int"), StandardContainer(Unsupported)>>)}
PEP_HINT_TO_META == {Object("pep", tree) : tree \in PepTrees}
NOT_HINTS_HASHABLE == {Object("number", NoHint)}
NOT_HINTS_UNHASHABLE == {Object("list", NoHint)}
Objects == NONPEP_HINTS \cup PEP_HINT_TO_META \cup NOT_HINTS_HASHABLE \cup NOT_HINTS_UNHASHABLE

BeartypeDecorHintNonPepException == "BeartypeDecorHintNonPepException"
BeartypeDecorHintPepUnsupportedException == "BeartypeDecorHintPepUnsupportedException"
TypeError == "TypeError"
Returns == "return"

\* hash(obj) raises TypeError on a list
IsHashable(obj) == obj.cat # "list"

\* (mutant) the validator accepts a string whatever is_str_valid says
die_unless_hint_any_str(obj, is_str_valid) ==
    IF ~IsHashable(obj) THEN TypeError
    ELSE IF obj.cat = "pep"
    THEN IF IsSupported(obj.hint) THEN Returns ELSE BeartypeDecorHintPepUnsupportedException
    ELSE IF obj.cat \in {"class", "str"} THEN Returns
    ELSE BeartypeDecorHintNonPepException

\* The validator: returns, or raises the exception that tells why the object
\* is no supported hint.
die_unless_hint(obj, is_str_valid) ==
    IF ~IsHashable(obj) THEN TypeError
    ELSE IF obj.cat = "pep"
    THEN IF IsSupported(obj.hint) THEN Returns ELSE BeartypeDecorHintPepUnsupportedException
    ELSE IF obj.cat = "class" THEN Returns
    ELSE IF obj.cat = "str" /\ is_str_valid THEN Returns
    ELSE BeartypeDecorHintNonPepException

\* The tester: True or False, or TypeError on an object that cannot be hashed.
is_hint(obj, is_str_valid) ==
    CASE obj \in NOT_HINTS_UNHASHABLE -> TypeError
      [] obj \in PEP_HINT_TO_META -> IF IsSupported(obj.hint) THEN "True" ELSE "False"
      [] obj.cat = "str" -> IF is_str_valid THEN "True" ELSE "False"
      [] obj \in NONPEP_HINTS -> "True"
      [] OTHER -> "False"

Validated(obj, is_str_valid, raised, tested) ==
    [obj |-> obj, is_str_valid |-> is_str_valid, raised |-> raised, tested |-> tested]
NoValidated == Validated(Object("", NoHint), TRUE, "", "")
NoCompiled == [hint |-> NoHint, conf |-> Conf(TRUE), made |-> NoReturn]

\* die_unless_hint(obj, is_str_valid) and is_hint(obj, is_str_valid) are called
Validate(obj, is_str_valid) ==
    /\ validated' = Validated(obj, is_str_valid,
                              die_unless_hint(obj, is_str_valid), is_hint(obj, is_str_valid))
    /\ UNCHANGED compiled

\* make_check_expr(h, c) is called
Compile(h, c) ==
    /\ compiled' = [hint |-> h, conf |-> c, made |-> make_check_expr(h, c)]
    /\ UNCHANGED validated

(***************************************************************************)
(* Specifications.                                                         *)
(***************************************************************************)
Init ==
    /\ cache = EmptyDict
    /\ excs = EmptyDict
    /\ pc = [t \in Threads |-> "idle"]
    /\ args = [t \in Threads |-> <<NoHint, Conf(TRUE)>>]
    /\ local = [t \in Threads |-> NoReturn]
    /\ ret = [t \in Threads |-> NoReturn]
    /\ compiles = [a \in AllArgs |-> 0]
    /\ returned = [a \in AllArgs |-> {}]
    /\ ncalls = 0
    /\ hint = NoHint
    /\ conf = Conf(TRUE)
    /\ wrapper = NoReturn
    /\ pith = NoValue
    /\ random_int = 0
    /\ outcome = NoOutcome
    /\ decorated = NoDecorated
    /\ call = NoCall
    /\ result = NoResult
    /\ validated = NoValidated
    /\ compiled = NoCompiled

\* threads calling the memoized factory concurrently
Next ==
    /\ \E t \in Threads :
          \/ \E h \in CacheHints, c \in Confs : Call(t, h, c)
          \/ Lookup(t)
          \/ Body(t)
          \/ Store(t)
    /\ UNCHANGED checkVars
    /\ UNCHANGED wrapVars
    /\ UNCHANGED hintVars
Spec == Init /\ [][Next]_vars

\* the same calls, one after the other
NextSeq ==
    /\ \E t \in Threads :
          \/ \E h \in CacheHints, c \in Confs : SeqCall(t, h, c)
          \/ Lookup(t)
          \/ Body(t)
          \/ Store(t)
    /\ UNCHANGED checkVars
    /\ UNCHANGED wrapVars
    /\ UNCHANGED hintVars
SpecSeq == Init /\ [][NextSeq]_vars

\* one decorated parameter and its check invocations
NextCheck ==
    /\ \/ \E h \in Hints, c \in Confs : Decorate(h, c)
       \/ \E value \in Values, rnd \in RandomInts : CallWrapper(value, rnd)
       \/ ReturnWrapper
    /\ UNCHANGED cacheVars
    /\ UNCHANGED wrapVars
    /\ UNCHANGED hintVars
SpecCheck == Init /\ [][NextCheck]_vars

\* one decorated callable and the calls of its wrapper
\* the hints of the parameter and of the return
WrapHints ==
    {<<Scalar("int"), StandardContainer(StandardContainer(Scalar("int")))>>,
     <<StandardContainer(StandardContainer(Scalar("int"))), Scalar("int")>>}
WrapValues ==
    {PyValue("int", <<>>), PyValue("str", <<>>),
     PyValue("list", <<PyValue("list", <<PyValue("int", <<>>), PyValue("str", <<>>)>>)>>)}
ArgValues == WrapValues \ {PyValue("str", <<>>)}
ArgNames == {"x"}
EmptyKwargs == [k \in {} |-> NoValue]
Kwargs ==
    {EmptyKwargs, ("y" :> PyValue("int", <<>>)),
     ("x" :> PyValue("int", <<>>)) @@ ("y" :> PyValue("int", <<>>))}
    \cup {("x" :> v) : v \in WrapValues}
NextWrap ==
    /\ \/ \E kind \in ParamKinds, arg_index \in 0..(MaxArgs - 1), arg_name \in ArgNames,
             hints \in WrapHints, cnf \in Confs :
             DecorateCallable(kind, arg_index, arg_name, hints[1], hints[2], cnf)
       \/ \E call_args \in SeqsUpTo(ArgValues, MaxArgs), call_kwargs \in Kwargs,
             rnd \in RandomInts, func_result \in WrapValues \cup {FuncRaises} :
             CallDecorated(call_args, call_kwargs, rnd, func_result)
       \/ ReturnDecorated
    /\ UNCHANGED cacheVars
    /\ UNCHANGED checkVars
    /\ UNCHANGED hintVars
SpecWrap == Init /\ [][NextWrap]_vars

\* one decorated parameter whose hint names classes that are not defined yet
RefValues ==
    {PyValue("int", <<>>), PyValue("str", <<>>),
     PyValue("list", <<PyValue("int", <<>>)>>),
     PyValue("tuple", <<PyValue("int", <<>>), PyValue("str", <<>>)>>)}
NextRef ==
    /\ \/ \E h \in RefHints \cup RefHints2, c \in Confs : Decorate(h, c)
       \/ \E value \in RefValues, rnd \in RandomInts : CallWrapper(value, rnd)
       \/ ReturnWrapper
    /\ UNCHANGED cacheVars
    /\ UNCHANGED wrapVars
    /\ UNCHANGED hintVars
SpecRef == Init /\ [][NextRef]_vars

\* hints validated and compiled, to three levels of nesting
LeafHints == {Scalar("int"), Unsupported}
CompileHints1 ==
    {Union(<<a, b>>) : a \in LeafHints, b \in LeafHints}
    \cup {StandardContainer(a) : a \in LeafHints \cup {ForwardRef("A")}}
    \cup {FixedTuple(<<a>>) : a \in LeafHints} \cup {FixedTuple(<<>>)}
CompileHints2 ==
    {StandardContainer(a) : a \in CompileHints1}
    \cup {FixedTuple(<<Scalar("int"), a>>) : a \in CompileHints1}
    \cup {Union(<<Scalar("str"), a>>) : a \in CompileHints1}
CompileHints3 == {StandardContainer(a) : a \in CompileHints2}
CompileHints == LeafHints \cup CompileHints1 \cup CompileHints2 \cup CompileHints3
NextHint ==
    /\ \/ \E obj \in Objects, is_str_valid \in BOOLEAN : Validate(obj, is_str_valid)
       \/ \E h \in CompileHints, c \in Confs : Compile(h, c)
    /\ UNCHANGED cacheVars
    /\ UNCHANGED checkVars
    /\ UNCHANGED wrapVars
SpecHint == Init /\ [][NextHint]_vars

(***************************************************************************)
(* Properties of the memoized factory.                                     *)
(***************************************************************************)
Stored(k) == k \in DOMAIN cache \cup DOMAIN excs
AllIdle == \A t \in Threads : pc[t] = "idle"
\* every finished call so far was a call with the arguments a
OnlyCalled(a) == \A b \in AllArgs \ {a} : returned[b] = {} /\ compiles[b] = 0

\* C1: over calls made one after the other, make_check_expr is invoked at most
\* once for each (hint, conf), and the body is never entered for a stored key.
C1_CompiledAtMostOnce ==
    /\ \A a \in AllArgs : compiles[a] <= 1
    /\ \A t \in Threads : pc[t] = "body" => ~Stored(KeyOf(t))

\* two calls with the same arguments have finished after one compilation
C1_Witness ==
    \E a \in AllArgs :
        /\ AllIdle /\ ncalls >= 2 /\ OnlyCalled(a)
        /\ compiles[a] = 1 /\ returned[a] # {}

\* C2: all calls with the same arguments return the same value (the first one
\* stored), and no call changes or removes a stored entry.
C2_SameResultEveryCall ==
    /\ [](\A a \in AllArgs : Cardinality(returned[a]) <= 1)
    /\ [][\A k \in DOMAIN cache : k \in DOMAIN cache' /\ cache'[k] = cache[k]]_vars

\* a second call for a stored key has returned, with another key stored too
C2_Witness ==
    \E a \in AllArgs :
        /\ AllIdle /\ ncalls >= 3 /\ compiles[a] = 1
        /\ CacheKey(a[1], a[2]) \in DOMAIN cache
        /\ returned[a] = {cache[CacheKey(a[1], a[2])]}
        /\ \E b \in AllArgs \ {a} : CacheKey(b[1], b[2]) \in DOMAIN cache
        /\ \E t, u \in Threads : t # u /\ args[t] = a /\ args[u] = a

\* C3: the configuration is part of the key: a call returns only what the
\* compilation of its own hint under its own configuration yields, and only
\* after the compiler has run for that hint and that configuration.
C3_ConfInKey ==
    \A a \in AllArgs :
        returned[a] # {} =>
            /\ compiles[a] >= 1
            /\ returned[a] = {make_func_wrapper_code(a[1], a[2])}

\* one hint is stored under both configurations, with different code
C3_Witness ==
    \E h \in CacheHints :
        /\ CacheKey(h, Conf(TRUE)) \in DOMAIN cache
        /\ CacheKey(h, Conf(FALSE)) \in DOMAIN cache
        /\ cache[CacheKey(h, Conf(TRUE))] # cache[CacheKey(h, Conf(FALSE))]
        /\ returned[<<h, Conf(FALSE)>>] = {cache[CacheKey(h, Conf(FALSE))]}
        /\ returned[<<h, Conf(TRUE)>>] = {cache[CacheKey(h, Conf(TRUE))]}

\* C4: threads racing on the first call for a key compute equal values, every
\* value a call has returned is the complete entry the cache holds for its
\* key, and a stored entry is never a partly built one.
WellFormed(r) ==
    /\ r.exc = NoExc
    /\ r.code.op = "root"
    /\ ARG_NAME_RAISE_EXCEPTION \in r.scope
    /\ (r.code.type # "") = (ARG_NAME_GETRANDBITS \in r.scope)
C5_FailureIsPermanent ==
    \A a \in AllArgs :
        ~IsSupported(a[1]) =>
            /\ CacheKey(a[1], a[2]) \notin DOMAIN cache
            /\ \A r \in returned[a] : r.exc = "UnsupportedSpecification"
            /\ \A t \in Threads :
                  args[t] = a /\ pc[t] = "store" => local[t].exc = "UnsupportedSpecification"

\* two calls for an unsupported hint have both raised
C5_Witness ==
    \E a \in AllArgs :
        /\ ~IsSupported(a[1]) /\ AllIdle /\ ncalls >= 2 /\ OnlyCalled(a)
        /\ Cardinality(returned[a]) = 1
        /\ \A t \in Threads : ret[t].exc \in {"UnsupportedSpecification", "none"}

(***************************************************************************)
(* Properties of the generated checks.                                     *)
(***************************************************************************)
Accepts(h, c, value, rnd) == Check(h, c, value, rnd) = "pass"
Checked == outcome # NoOutcome
Reorderings(seq) ==
    {[k \in 1..Len(seq) |-> seq[p[k]]] :
        p \in {q \in [1..Len(seq) -> 1..Len(seq)] : \A i \in 1..Len(seq) : \E j \in 1..Len(seq) : q[j] = i}}
\* the indexes of the root pith's items that a check invocation has read
RootItemsRead ==
    {outcome.log[k].i : k \in {j \in DOMAIN outcome.log :
        outcome.log[j].d = 0 /\ outcome.log[j].op \in {"randitem", "item", "iter"}}}

\* C6: the check of a union accepts a value iff the check of one of its
\* children accepts it, and the check of every permutation of the children
\* accepts the same values.
C6_UnionSoundness ==
    (Checked /\ hint.kind = "Union") =>
        /\ (outcome.status = "pass") <=>
              (\E k \in 1..Len(hint.children) :
                  Accepts(hint.children[k], conf, pith, random_int))
        /\ \A cs \in Reorderings(hint.children) :
              Accepts(Union(cs), conf, pith, random_int) <=> (outcome.status = "pass")

\* C7: the check of a fixed tuple accepts a value iff it is a tuple with as
\* many items as the hint, each accepted by the child at its position; the
\* check returns (true or false) on every value and never raises.
C7_TupleSoundness ==
    (Checked /\ hint.kind = "FixedTuple") =>
        /\ outcome.status \in {"pass", "violation"}
        /\ (outcome.status = "pass") <=>
              /\ pith.t = "tuple"
              /\ Len(pith.items) = Len(hint.children)
              /\ \A k \in 1..Len(hint.children) :
                    Accepts(hint.children[k], conf, pith.items[k], random_int)

\* C8: the check of the empty fixed tuple accepts exactly the empty tuple.
C8_EmptyTupleOnly ==
    (Checked /\ hint = FixedTuple(<<>>)) =>
        /\ outcome.status \in {"pass", "violation"}
        /\ (outcome.status = "pass") <=> (pith = PyValue("tuple", <<>>))

\* a non-empty tuple has been rejected by the check of the empty fixed tuple
C8_Witness ==
    /\ hint = FixedTuple(<<>>)
    /\ pith.t = "tuple" /\ Len(pith.items) > 0
    /\ outcome.status = "violation"

\* C9: the check of a standard container accepts the empty container of its
\* type, whatever the element hint, the configuration and the random integer.
C9_EmptyContainerAccepted ==
    (Checked /\ hint.kind = "StandardContainer" /\ pith = PyValue(hint.type, <<>>)) =>
        outcome.status = "pass"

\* the empty list has passed the check of a container of an unsatisfiable hint
C9_Witness ==
    /\ hint = StandardContainer(Scalar("bytes"))
    /\ conf.sampling /\ random_int > 0
    /\ pith = PyValue("list", <<>>)
    /\ outcome.status = "pass"

\* C10: with sampling, the check of a standard container reads one item of a
\* non-empty container: the one at the random integer modulo the length, an
\* index of the container; the check ends as the check of the element hint on
\* that item ends.
C10_SampledOneElement ==
    (/\ Checked /\ conf.sampling /\ hint.kind = "StandardContainer"
     /\ pith.t = hint.type /\ Len(pith.items) > 0) =>
        LET pith_child_index == random_int % Len(pith.items) IN
        /\ pith_child_index \in 0..(Len(pith.items) - 1)
        /\ RootItemsRead = {pith_child_index}
        /\ \A k \in DOMAIN outcome.log :
              outcome.log[k].d = 0 => outcome.log[k].op = "randitem"
        /\ outcome.status =
              Check(hint.children[1], conf, pith.items[pith_child_index + 1], random_int)

\* a random integer beyond the last index has selected the one bad item
C10_Witness ==
    /\ conf.sampling /\ hint = StandardContainer(Scalar("int"))
    /\ pith = PyValue("list", <<PyValue("str", <<>>), PyValue("int", <<>>)>>)
    /\ random_int >= Len(pith.items)
    /\ outcome.status = "violation"

\* A value conforms to a hint (the meaning of the hints, whatever the code):
\* a scalar by its type, a union by one child, a container by all its items,
\* a fixed tuple by its exact length and each item at its position.
RECURSIVE Conforms(_, _)
Conforms(node, value) ==
    CASE node.kind = "Scalar" -> value.t = node.type
      [] node.kind = "Union" ->
           \E k \in 1..Len(node.children) : Conforms(node.children[k], value)
      [] node.kind = "StandardContainer" ->
           /\ value.t = node.type
           /\ \A k \in 1..Len(value.items) : Conforms(node.children[1], value.items[k])
      [] node.kind = "FixedTuple" ->
           /\ value.t = node.type
           /\ Len(value.items) = Len(node.children)
           /\ \A k \in 1..Len(node.children) : Conforms(node.children[k], value.items[k])
      [] OTHER -> FALSE
\* the positions of the root container's items that do not conform
BadItems == {k \in 1..Len(pith.items) : ~Conforms(hint.children[1], pith.items[k])}
\* the hint holds no forward reference (running a check with one is undefined)
Resolved == ForwardRefsOf(hint) = {}

ScalarOnly(node) ==
    \/ node.kind = "Scalar"
    \/ /\ node.kind = "Union"
       /\ \A k \in 1..Len(node.children) : node.children[k].kind = "Scalar"

C12_ExhaustiveRejectsAnyBadItem ==
    (/\ Checked /\ ~conf.sampling /\ hint.kind = "StandardContainer" /\ Resolved
     /\ pith.t = hint.type) =>
        /\ (BadItems # {}) => (outcome.status = "violation")
        /\ (outcome.status = "pass") => (BadItems = {})

(***************************************************************************)
(* Properties of the generated wrapper.                                    *)
(***************************************************************************)
Called == result # NoResult
\* the checks of the last call in which the callback was called
Violated == {k \in DOMAIN result.checks : result.checks[k].outcome.violation # NoViolation}
CheckCode(slot) == IF slot = "param" THEN decorated.param ELSE decorated.return
PithName(slot) == IF slot = "param" THEN decorated.arg_name ELSE "return"

\* C13: in every root check a call of the wrapper runs, the callback is called
\* iff the compiled expression is false of the root value; it is called at
\* most once, with the value the check was run on and the name of the
\* parameter (or "return"), and the call of the wrapper ends there.
C13_CallbackIffFalse ==
    Called =>
        /\ \A k \in DOMAIN result.checks :
              LET c == result.checks[k]
                  r == Eval(CheckCode(c.slot).args[1], (0 :> c.pith), <<>>, call.random_int)
              IN /\ (k \in Violated) <=> (r.exc = NoExc /\ ~r.b)
                 /\ (k \in Violated) =>
                       /\ c.outcome.violation.pith_value = c.pith
                       /\ c.outcome.violation.pith_name = PithName(c.slot)
                       /\ c.outcome.violation.func = PARAM_NAME_FUNC
                       /\ k = Len(result.checks)
                       /\ result.status = "violation"
        /\ Cardinality(Violated) <= 1

\* the first of two variadic arguments has violated the hint: one check, one
\* call of the callback, the callable not called
C13_Witness ==
    /\ Called /\ decorated.kind = VAR_POSITIONAL /\ decorated.arg_index = 0
    /\ Len(call.args) = 2
    /\ Len(result.checks) = 1 /\ Violated = {1}
    /\ result.checks[1].outcome.violation.pith_value = call.args[1]
    /\ result.func_calls = <<>>

(***************************************************************************)
(* Properties of the compiler's metadata and of hint validation.           *)
(***************************************************************************)
RECURSIVE Nodes(_)
Nodes(node) == {node} \cup UNION {Nodes(node.children[k]) : k \in 1..Len(node.children)}

\* C14: every ForwardRef node of the compiled hint has its name in the
\* forward-reference set of the returned triple, and the scope and the
\* forward-reference set the factory returns are those of the compiler: the
\* factory changes the code only.
C14_ForwardRefsKept ==
    (hint # NoHint) =>
        LET made == make_check_expr(hint, conf) IN
        /\ \A n \in Nodes(hint) : (n.kind = "ForwardRef") => (n.type \in wrapper.forwardrefs)
        /\ wrapper.scope = made.scope
        /\ wrapper.forwardrefs = made.forwardrefs
        /\ wrapper.code # made.code

\* a tuple hint of two forward references was compiled and then checked
C14_Witness ==
    /\ hint = FixedTuple(<<ForwardRef("A"), ForwardRef("B")>>)
    /\ wrapper.forwardrefs = {"A", "B"}
    /\ Checked

HasUnknownKind(tree) == \E n \in Nodes(tree) : n.kind \notin KnownKinds
RECURSIVE Depth(_)
Depth(node) ==
    IF node.children = <<>> THEN 0
    ELSE 1 + CHOOSE m \in 0..4 :
                 /\ \E k \in 1..Len(node.children) : Depth(node.children[k]) = m
                 /\ \A k \in 1..Len(node.children) : Depth(node.children[k]) <= m
HintExceptions == {BeartypeDecorHintNonPepException, BeartypeDecorHintPepUnsupportedException}

\* C15: compilation raises UnsupportedSpecification exactly when some node of
\* the tree is of a kind the compiler does not know, and returns an
\* expression for every tree of known kinds, however deep; the validator
\* returns on every supported hint of the typing module and raises the
\* unsupported-hint exception on every unsupported one.
C15_UnsupportedExactlyOnUnknownKind ==
    /\ (compiled # NoCompiled) =>
          /\ (compiled.made.exc = "UnsupportedSpecification") <=> HasUnknownKind(compiled.hint)
          /\ (~HasUnknownKind(compiled.hint)) =>
                (compiled.made.exc = NoExc /\ compiled.made.code # NoExpr)
    /\ (validated.obj \in PEP_HINT_TO_META) =>
          /\ (~HasUnknownKind(validated.obj.hint)) => (validated.raised = Returns)
          /\ HasUnknownKind(validated.obj.hint) =>
                (validated.raised = BeartypeDecorHintPepUnsupportedException)

\* a tree of known kinds three levels deep was compiled, and a hint with an
\* unknown kind below its root was refused by the validator
C15_Witness ==
    /\ Depth(compiled.hint) = 3
    /\ ~HasUnknownKind(compiled.hint)
    /\ compiled.made.exc = NoExc
    /\ validated.obj = Object("pep", StandardContainer(Unsupported))
    /\ validated.raised = BeartypeDecorHintPepUnsupportedException

\* C16: on every object that can be hashed and for either value of
\* is_str_valid, is_hint returns True exactly when die_unless_hint returns and
\* False exactly when die_unless_hint raises one of the two hint exceptions;
\* on an object that cannot be hashed both raise TypeError.
C16_TesterAgreesWithValidator ==
    (validated # NoValidated) =>
        /\ IsHashable(validated.obj) =>
              /\ validated.tested \in {"True", "False"}
              /\ (validated.tested = "True") <=> (validated.raised = Returns)
              /\ (validated.tested = "False") <=> (validated.raised \in HintExceptions)
        /\ (~IsHashable(validated.obj)) =>
              (validated.tested = TypeError /\ validated.raised = TypeError)

\* a string was validated with is_str_valid false: refused by both
C16_Witness ==
    /\ validated.obj = Object("str", ForwardRef("dict"))
    /\ ~validated.is_str_valid
    /\ validated.tested = "False"
    /\ validated.raised = BeartypeDecorHintNonPepException

(***************************************************************************)
(* Properties of the pith variables.  The log of a check invocation is cut *)
(* into the evaluations of its fragments: an entry belongs to the          *)
(* innermost fragment evaluation that was entered and not yet left.        *)
(***************************************************************************)
Entered(log, j) == Cardinality({x \in 1..(j - 1) : log[x].op = "enter"})
Left(log, j) == Cardinality({x \in 1..(j - 1) : log[x].op = "exit"})
Level(log, j) == Entered(log, j) - Left(log, j)
\* the index of the "enter" of the fragment evaluation entry j belongs to; 0 at the top
Owner(log, j) ==
    LET enters == {a \in 1..(j - 1) : log[a].op = "enter" /\ Level(log, a) + 1 = Level(log, j)}
    IN IF enters = {} THEN 0 ELSE CHOOSE a \in enters : \A x \in enters : x <= a
Evaluations(log) == {j \in 1..Len(log) : log[j].op \in {"assign", "item", "randitem"}}

\* C17: within one evaluation of a fragment no binding expression is
\* evaluated twice: each slot is assigned at most once and each item of a
\* pith is read at most once; all other references read the slot.
C17_BindingEvaluatedOnce ==
    Checked =>
        \A j1 \in Evaluations(outcome.log), j2 \in Evaluations(outcome.log) :
            (/\ j1 # j2
             /\ Owner(outcome.log, j1) = Owner(outcome.log, j2))
            => outcome.log[j1] # outcome.log[j2]

\* a list of lists was checked by sampling: the inner list was read from the
\* outer one and bound once, then tested for emptiness and indexed
C17_Witness ==
    /\ Checked
    /\ conf.sampling
    /\ hint = StandardContainer(StandardContainer(Scalar("int")))
    /\ outcome.status = "pass"
    /\ Cardinality({j \in 1..Len(outcome.log) : outcome.log[j] = LogEntry("assign", 1, 0)}) = 1
    /\ \E j \in 1..Len(outcome.log) : outcome.log[j].op = "randitem" /\ outcome.log[j].d = 1

\* What a check decides when every node tests the value it is about: the
\* hint is walked with the value itself, without pith variables.  Children
\* are tried in order; the first that decides or raises ends the walk.
RECURSIVE Expect(_, _, _, _)
RECURSIVE ExpectAny(_, _, _, _, _)
RECURSIVE ExpectItems(_, _, _, _, _)
RECURSIVE ExpectEach(_, _, _, _, _)
Expect(node, cnf, value, rnd) ==
    CASE node.kind = "Scalar" -> IF value.t = node.type THEN "pass" ELSE "violation"
      [] node.kind = "Union" -> ExpectAny(node.children, 1, cnf, value, rnd)
      [] node.kind = "StandardContainer" ->
           IF value.t # node.type THEN "violation"
           ELSE IF value.items = <<>> THEN "pass"
           ELSE IF cnf.sampling
           THEN Expect(node.children[1], cnf, value.items[(rnd % Len(value.items)) + 1], rnd)
           ELSE ExpectEach(node.children[1], 1, cnf, value.items, rnd)
      [] node.kind = "FixedTuple" ->
           IF value.t # node.type THEN "violation"
           ELSE IF node.children = <<>>
           THEN (IF value.items = <<>> THEN "pass" ELSE "violation")
           ELSE ExpectItems(node.children, 1, cnf, value.items, rnd)
      [] node.kind = "ForwardRef" -> "UnresolvedForwardReference"
ExpectAny(children, k, cnf, value, rnd) ==
    LET r == Expect(children[k], cnf, value, rnd) IN
    IF r # "violation" \/ k = Len(children) THEN r
    ELSE ExpectAny(children, k + 1, cnf, value, rnd)
\* the items of a tuple are indexed one by one: a missing item raises
ExpectItems(children, k, cnf, items, rnd) ==
    IF k > Len(items) THEN "IndexError"
    ELSE LET r == Expect(children[k], cnf, items[k], rnd) IN
         IF r # "pass" \/ k = Len(children) THEN r
         ELSE ExpectItems(children, k + 1, cnf, items, rnd)
ExpectEach(child, k, cnf, items, rnd) ==
    IF k > Len(items) THEN "pass"
    ELSE LET r == Expect(child, cnf, items[k], rnd) IN
         IF r # "pass" THEN r ELSE ExpectEach(child, k + 1, cnf, items, rnd)

\* C18: pith variables are numbered by nesting depth: a fragment evaluated
\* inside k enclosing fragment evaluations keeps its pith in variable k, the
\* root in variable 0, and a variable d >= 1 is assigned from an item of
\* variable d - 1.  Siblings share a number, yet every read yields the value
\* of the node being evaluated: the check decides as the walk without
\* variables does.  Variable 0 is never assigned and still holds the root
\* value when the check ends.
C18_DepthNamedSlotsNeverStale ==
    Checked =>
        /\ \A a \in 1..Len(outcome.log) :
              /\ (outcome.log[a].op = "enter") => (outcome.log[a].i = Level(outcome.log, a))
              /\ (outcome.log[a].op = "assign") =>
                    /\ outcome.log[a].d >= 1
                    /\ a > 1
                    /\ outcome.log[a - 1].op \in {"item", "randitem"}
                    /\ outcome.log[a - 1].d = outcome.log[a].d - 1
        /\ outcome.status = Expect(hint, conf, pith, random_int)
        /\ outcome.pith_root = pith

\* a tuple of a list of int and a list of str was accepted: both lists were
\* bound to variable 1, one after the other
C18_Witness ==
    /\ Checked
    /\ hint = FixedTuple(<<StandardContainer(Scalar("int")), StandardContainer(Scalar("str"))>>)
    /\ pith = PyValue("tuple", <<PyValue("list", <<PyValue("int", <<>>)>>),
                                 PyValue("list", <<PyValue("str", <<>>)>>)>>)
    /\ outcome.status = "pass"
    /\ Cardinality({j \in 1..Len(outcome.log) : outcome.log[j] = LogEntry("assign", 1, 0)}) = 2

ParamChecks == {k \in DOMAIN result.checks : result.checks[k].slot = "param"}
ReturnChecks == {k \in DOMAIN result.checks : result.checks[k].slot = "return"}
Passed(name) == name \in DOMAIN call.kwargs

C19_Unpassed ==
    /\ Called
    /\ decorated.kind = KEYWORD_ONLY
    /\ ~Passed(decorated.arg_name)
    /\ Len(call.args) > 0
    /\ result.status = "returned"

\* C20: once the parameters are checked, the wrapper calls the callable once,
\* with all the arguments it was passed, and checks the value the callable
\* returned; it returns only if that check passed, and what it returns is
\* the value that was checked.  It never calls the callable a second time.
C20_CheckedReturn ==
    Called =>
        /\ Len(result.func_calls) <= 1
        /\ (\A k \in ParamChecks : result.checks[k].outcome.status = "pass") =>
              result.func_calls = <<FuncCall(call.args, call.kwargs)>>
        /\ (result.func_calls # <<>> /\ call.func_result # FuncRaises) =>
              /\ ReturnChecks = {Len(result.checks)}
              /\ result.checks[Len(result.checks)].pith = call.func_result
        /\ (result.func_calls = <<>> \/ call.func_result = FuncRaises) => ReturnChecks = {}
        /\ (result.status = "returned") <=>
              (ReturnChecks # {} /\ result.checks[Len(result.checks)].outcome.status = "pass")
        /\ (result.status = "returned") =>
              /\ result.value = result.checks[Len(result.checks)].pith
              /\ result.value = call.func_result
        /\ (result.status # "returned") => result.value = NoValue

\* the callable returned a list of lists that passed the nested check, after
\* two positional arguments and a keyword argument were handed on to it
C20_Witness ==
    /\ Called
    /\ result.status = "returned"
    /\ decorated.hint_return = StandardContainer(StandardContainer(Scalar("int")))
    /\ result.value.t = "list"
    /\ Len(call.args) = 2
    /\ DOMAIN call.kwargs # {}
    /\ result.func_calls = <<FuncCall(call.args, call.kwargs)>>

(***************************************************************************)
(* Properties of the sampled-element expression and of the random integer. *)
(***************************************************************************)
\* The sampling expressions of a piece of code that are not behind both tests
\* of their container: e holds such an expression when a "randitem" of
\* variable d is met outside the right operand of
\*     isinstance(<variable d>, <sequence type>) and (not <variable d> or ...)
RECURSIVE HasUnguardedSample(_, _)
HasUnguardedSample(e, tested) ==
    CASE e.op = "randitem" -> e.args[1].op # "name" \/ e.args[1].d \notin tested
      [] e.op = "and" /\ Len(e.args) = 2 /\ e.args[2].op = "or" ->
           LET guard == e.args[2].args[1]
               guarded ==
                   /\ e.args[1].op = "isinstance"
                   /\ e.args[1].type \in SequenceTypes
                   /\ guard.op = "not"
                   /\ guard.args[1] = Name(SlotOf(e))
           IN \/ HasUnguardedSample(e.args[1], tested)
              \/ \E k \in 2..Len(e.args[2].args) :
                    HasUnguardedSample(e.args[2].args[k],
                                       IF guarded THEN tested \cup {SlotOf(e)} ELSE tested)
      [] OTHER -> \E k \in 1..Len(e.args) : HasUnguardedSample(e.args[k], tested)

\* C21: no check invocation divides by zero or indexes a value that is not a
\* sequence: every sampling expression of the generated code stands behind
\* the type test and the emptiness test of its container, which end the
\* evaluation first.
C21_SampleBehindBothTests ==
    /\ (hint # NoHint) => ~HasUnguardedSample(wrapper.code, {})
    /\ Checked => outcome.status \notin {"ZeroDivisionError", "TypeError"}

\* with sampling enabled, a list holding an empty list was checked against a
\* list of lists: the outer list was sampled, the inner one was not
C21_Witness ==
    /\ Checked
    /\ conf.sampling
    /\ hint = StandardContainer(StandardContainer(Scalar("int")))
    /\ pith = PyValue("list", <<PyValue("list", <<>>)>>)
    /\ outcome.status = "pass"
    /\ \E j \in 1..Len(outcome.log) : outcome.log[j].op = "randitem" /\ outcome.log[j].d = 0
    /\ \A j \in 1..Len(outcome.log) : outcome.log[j].op = "randitem" => outcome.log[j].d = 0

\* whether a piece of generated code names the random integer: in a sampling
\* expression, or as the argument handed to the callback
RECURSIVE NamesRandomInt(_)
NamesRandomInt(e) ==
    \/ e.op = "randitem"
    \/ (e.op = "root" /\ e.type # "")
    \/ \E k \in 1..Len(e.args) : NamesRandomInt(e.args[k])

\* C22: the root check hands the random integer of the call to the callback
\* iff the scope the compiler returned holds the getrandbits symbol; when it
\* does not, no part of the generated code names the random integer, and the
\* callback is called without one.
C22_RandomIntIffGetrandbits ==
    (hint # NoHint) =>
        LET made == make_check_expr(hint, conf)
            sampled == ARG_NAME_GETRANDBITS \in made.scope
        IN /\ wrapper.code.type = (IF sampled THEN VAR_NAME_RANDOM_INT ELSE "")
           /\ (~sampled) => ~NamesRandomInt(wrapper.code)
           /\ (Checked /\ outcome.status = "violation") =>
                 outcome.violation.random_int = (IF sampled THEN random_int ELSE -1)

\* a sampled list was refused and the callback got the random integer of the
\* call; the integer is not 0, the value the variable holds between calls
C22_Witness ==
    /\ Checked
    /\ conf.sampling
    /\ hint = StandardContainer(Scalar("int"))
    /\ ARG_NAME_GETRANDBITS \in wrapper.scope
    /\ outcome.status = "violation"
    /\ random_int > 0
    /\ outcome.violation.random_int = random_int

\* the same hint compiled without sampling was refused: no random integer
C22_WitnessExhaustive ==
    /\ Checked
    /\ ~conf.sampling
    /\ hint = StandardContainer(Scalar("int"))
    /\ ARG_NAME_GETRANDBITS \notin wrapper.scope
    /\ outcome.status = "violation"
    /\ outcome.violation.random_int = -1

====
